---- MODULE Spec2Model ----
(***************************************************************************)
(* SherlockQA (src/src/index.js, the current revision at lines 422-1131):  *)
(* the diff position indexer parseDiffForLinePositions, the inline comment *)
(* loop of run, the review body composer buildReviewBody, the scenario     *)
(* matcher isScenarioPreviouslyChecked and findAndDismissPreviousReview.   *)
(*                                                                         *)
(* Text is a sequence of characters, each a one-character string; a few    *)
(* fixed fragments of the templates are kept as one token (named below).   *)
(* A document is the sequence of its lines (the text split at newlines).   *)
(***************************************************************************)
EXTENDS Integers, Sequences, FiniteSets, TLC

VARIABLES
    \* parseDiffForLinePositions
    currentFile, diffPosition, currentNewLine, fileLineMap,
    log,            \* history: one record per line the loop has consumed
    returned,       \* history: one record per call, the text and the map returned
    \* the inline comment loop of run
    linePositionMap, minSeverity, lineComments, reviewComments,
    \* buildReviewBody and the runs on one pull request
    pc, prReviews, sherlockReviews, listed, previousCheckedScenarios, review,
    reviewStyle, useEmoji, body, humanChecked, runNo,
    autoApprove, response, event, failed,
    dismissCalls,   \* history: the reviews dismissReview was called with
    eventName,      \* github.context.eventName of the current run
    calls,          \* history: the external calls of the current run, in order
    \* isScenarioPreviouslyChecked called on its own
    candidate, checkedSet, matched

ixVars == <<currentFile, diffPosition, currentNewLine, fileLineMap, log, returned>>
plVars == <<linePositionMap, minSeverity, lineComments, reviewComments>>
runVars == <<pc, prReviews, sherlockReviews, listed, previousCheckedScenarios,
             review, reviewStyle, useEmoji, body, humanChecked, runNo,
             autoApprove, response, event, failed, dismissCalls, eventName, calls>>
mtVars == <<candidate, checkedSet, matched>>
vars == <<ixVars, plVars, runVars, mtVars>>

\* JavaScript's null, and undefined where a number is looked up (no level and
\* no position is negative)
Null == "null"
Undefined == -1

-----------------------------------------------------------------------------
(* Strings *)

\* String.prototype.startsWith
StartsWith(s, p) ==
    /\ Len(s) >= Len(p)
    /\ \A i \in 1..Len(p) : s[i] = p[i]

\* String.prototype.slice(n), n >= 0
Slice(s, n) == IF n >= Len(s) THEN <<>> ELSE SubSeq(s, n + 1, Len(s))

\* String.prototype.includes
Includes(s, p) ==
    \E i \in 0..(Len(s) - Len(p)) : \A j \in 1..Len(p) : s[i + j] = p[j]

Digits == {"0", "1", "2", "3", "4", "5", "6", "7", "8", "9"}

DigitValue(c) ==
    CASE c = "0" -> 0 [] c = "1" -> 1 [] c = "2" -> 2 [] c = "3" -> 3
      [] c = "4" -> 4 [] c = "5" -> 5 [] c = "6" -> 6 [] c = "7" -> 7
      [] c = "8" -> 8 [] c = "9" -> 9

\* parseInt(digits, 10) of a non-empty run of digits
RECURSIVE ParseInt(_)
ParseInt(ds) ==
    IF ds = <<>> THEN 0
    ELSE 10 * ParseInt(SubSeq(ds, 1, Len(ds) - 1)) + DigitValue(ds[Len(ds)])

-----------------------------------------------------------------------------
(* parseDiffForLinePositions: the hunk header pattern
     /^@@ -\d+(?:,\d+)? \+(\d+)(?:,\d+)? @@/                                *)

\* the index after the longest run of digits of s that starts at index i
RECURSIVE DigitsEnd(_, _)
DigitsEnd(s, i) ==
    IF i <= Len(s) /\ s[i] \in Digits THEN DigitsEnd(s, i + 1) ELSE i

\* the literal p stands in s at index i
LitAt(s, i, p) ==
    /\ i + Len(p) - 1 <= Len(s)
    /\ \A j \in 1..Len(p) : s[i + j - 1] = p[j]

\* the index after the optional group (?:,\d+)? tried at index i
OptCountEnd(s, i) ==
    IF LitAt(s, i, <<",">>) /\ DigitsEnd(s, i + 1) > i + 1
    THEN DigitsEnd(s, i + 1) ELSE i

\* line.match(...): Null, or the text of capture group 1
HunkMatch(line) ==
    IF ~LitAt(line, 1, <<"@", "@", " ", "-">>) THEN Null
    ELSE LET a == DigitsEnd(line, 5) IN
      IF a = 5 THEN Null
      ELSE LET b == OptCountEnd(line, a) IN
        IF ~LitAt(line, b, <<" ", "+">>) THEN Null
        ELSE LET c == DigitsEnd(line, b + 2) IN
          IF c = b + 2 THEN Null
          ELSE LET d == OptCountEnd(line, c) IN
            IF LitAt(line, d, <<" ", "@", "@">>)
            THEN SubSeq(line, b + 2, c - 1) ELSE Null

-----------------------------------------------------------------------------
(* parseDiffForLinePositions: the loop body *)

FileHeaderPrefix == <<"+", "+", "+", " ", "b", "/">>

\* !currentFile: null and the empty string are falsy
NoCurrentFile(cf) == cf = Null \/ cf = <<>>

\* fileLineMap[currentFile][currentNewLine] = diffPosition
SetPosition(m, f, l, p) ==
    [m EXCEPT ![f] = [x \in (DOMAIN m[f]) \cup {l} |->
                         IF x = l THEN p ELSE m[f][x]]]

\* fileLineMap[currentFile] = {}
ResetFile(m, f) ==
    [x \in (DOMAIN m) \cup {f} |-> IF x = f THEN <<>> ELSE m[x]]

\* which branch of the loop body the line takes
Branch(cf, line) ==
    IF StartsWith(line, FileHeaderPrefix) THEN "file"
    ELSE IF NoCurrentFile(cf) THEN "skip"
    ELSE IF HunkMatch(line) # Null THEN "hunk"
    ELSE IF StartsWith(line, <<"+">>) /\ ~StartsWith(line, <<"+", "+", "+">>)
         THEN "add"
    ELSE IF StartsWith(line, <<"-">>) /\ ~StartsWith(line, <<"-", "-", "-">>)
         THEN "del"
    ELSE IF ~StartsWith(line, <<"\\">>) THEN "other"
    ELSE "nonl"

\* one iteration of the for loop on the state st
LoopBody(st, line) ==
    LET br == Branch(st.currentFile, line) IN
    CASE br = "file" ->
           [st EXCEPT !.currentFile = Slice(line, 6),
                      !.fileLineMap = ResetFile(st.fileLineMap, Slice(line, 6)),
                      !.diffPosition = 0]
      [] br = "hunk" ->
           [st EXCEPT !.currentNewLine = ParseInt(HunkMatch(line)),
                      !.diffPosition = st.diffPosition + 1]
      [] br \in {"add", "other"} ->
           [st EXCEPT !.fileLineMap = SetPosition(st.fileLineMap, st.currentFile,
                                                  st.currentNewLine, st.diffPosition),
                      !.currentNewLine = st.currentNewLine + 1,
                      !.diffPosition = st.diffPosition + 1]
      [] br = "del" -> [st EXCEPT !.diffPosition = st.diffPosition + 1]
      [] OTHER -> st

\* seeded fault: the hunk header line is not counted as a diff position
ParseLine_HunkNotCounted(st, line) ==
    IF Branch(st.currentFile, line) = "hunk"
    THEN [LoopBody(st, line) EXCEPT !.diffPosition = st.diffPosition]
    ELSE LoopBody(st, line)

\* seeded fault: a line of the last branch advances the counters without an entry
ParseLine_ContextNotRecorded(st, line) ==
    IF Branch(st.currentFile, line) = "other"
    THEN [LoopBody(st, line) EXCEPT !.fileLineMap = st.fileLineMap]
    ELSE LoopBody(st, line)

\* seeded fault: an added line does not advance diffPosition
ParseLine_AddKeepsPosition(st, line) ==
    IF Branch(st.currentFile, line) = "add"
    THEN [LoopBody(st, line) EXCEPT !.diffPosition = st.diffPosition]
    ELSE LoopBody(st, line)

\* seeded fault: positions start again at every hunk header
ParseLine_HunkRestartsPosition(st, line) ==
    IF Branch(st.currentFile, line) = "hunk"
    THEN [LoopBody(st, line) EXCEPT !.diffPosition = 1]
    ELSE LoopBody(st, line)

\* seeded fault: the no-newline marker is counted as a diff position
ParseLine_MarkerCounted(st, line) ==
    IF Branch(st.currentFile, line) = "nonl"
    THEN [st EXCEPT !.diffPosition = st.diffPosition + 1]
    ELSE LoopBody(st, line)

\* seeded fault: a hunk header is counted although no file is open
ParseLine_HunkBeforeFileCounted(st, line) ==
    IF Branch(st.currentFile, line) = "skip" /\ HunkMatch(line) # Null
    THEN [st EXCEPT !.currentNewLine = ParseInt(HunkMatch(line)),
                    !.diffPosition = st.diffPosition + 1]
    ELSE LoopBody(st, line)

ParseLine(st, line) == LoopBody(st, line)

\* seeded fault: the map and the counters are kept from the call before
ParseInit_KeepsState ==
    [currentFile |-> currentFile, diffPosition |-> diffPosition,
     currentNewLine |-> currentNewLine, fileLineMap |-> fileLineMap]

\* the state before the loop
ParseInit ==
    [currentFile |-> Null, diffPosition |-> 0, currentNewLine |-> 0,
     fileLineMap |-> <<>>]

\* the whole function on the lines of diffText.split('\n')
RECURSIVE ParseLines(_, _)
ParseLines(st, lines) ==
    IF lines = <<>> THEN st
    ELSE ParseLines(ParseLine(st, Head(lines)), Tail(lines))

parseDiffForLinePositions(lines) == ParseLines(ParseInit, lines).fileLineMap

-----------------------------------------------------------------------------
(* Diff lines the indexer is run on *)

LFileA == <<"+", "+", "+", " ", "b", "/", "a">>
LFileB == <<"+", "+", "+", " ", "b", "/", "b">>
LHunk1 == <<"@", "@", " ", "-", "1", ",", "2", " ", "+", "1", ",", "3", " ", "@", "@">>
LHunk5 == <<"@", "@", " ", "-", "7", " ", "+", "5", " ", "@", "@", " ", "f">>
LAdd == <<"+", "x">>
LDel == <<"-", "x">>
LCtx == <<" ", "x">>
LNoNl == <<"\\", " ", "N">>
LOldHdr == <<"-", "-", "-", " ", "a", "/", "a">>
LEmpty == <<>>

DiffLines ==
    {LFileA, LFileB, LHunk1, LHunk5, LAdd, LDel, LCtx, LNoNl, LOldHdr, LEmpty}

MaxLines == 5

-----------------------------------------------------------------------------
(* The indexer as a state machine: one step per line of the diff *)

IxState ==
    [currentFile |-> currentFile, diffPosition |-> diffPosition,
     currentNewLine |-> currentNewLine, fileLineMap |-> fileLineMap]

IxIdle ==
    /\ currentFile = Null /\ diffPosition = 0 /\ currentNewLine = 0
    /\ fileLineMap = <<>> /\ log = <<>> /\ returned = <<>>

PlIdle ==
    /\ linePositionMap = <<>> /\ minSeverity = "warning"
    /\ lineComments = <<>> /\ reviewComments = <<>>

RunIdle ==
    /\ pc = "idle" /\ prReviews = <<>> /\ sherlockReviews = <<>>
    /\ listed = FALSE /\ previousCheckedScenarios = {}
    /\ review = Null /\ reviewStyle = "compact" /\ useEmoji = TRUE
    /\ body = Null /\ humanChecked = {} /\ runNo = 0
    /\ autoApprove = FALSE /\ response = Null /\ event = Null
    /\ failed = FALSE /\ dismissCalls = {}
    /\ eventName = Null /\ calls = <<>>

MtIdle == candidate = <<>> /\ checkedSet = {} /\ matched = <<>>

Init == IxIdle /\ PlIdle /\ RunIdle /\ MtIdle

\* the loop consumes the next line of the text
IndexLine(line) ==
    /\ Len(log) < MaxLines
    /\ LET st == ParseLine(IxState, line) IN
         /\ currentFile' = st.currentFile
         /\ diffPosition' = st.diffPosition
         /\ currentNewLine' = st.currentNewLine
         /\ fileLineMap' = st.fileLineMap
    /\ log' = Append(log, [line |-> line, file |-> currentFile,
                           newLine |-> currentNewLine, pos |-> diffPosition])
    /\ UNCHANGED <<returned, plVars, runVars, mtVars>>

Next == \E line \in DiffLines : IndexLine(line)

Spec == Init /\ [][Next]_vars

-----------------------------------------------------------------------------
(* parseDiffForLinePositions called again and again, on the same or on
   different texts; the variables of the loop are those of the latest call *)

CallDiffs ==
    { <<LFileA, LHunk1, LCtx, LAdd, LCtx>>,
      <<LFileA, LHunk1, LAdd, LFileB, LCtx>>,
      <<LFileB, LHunk5, LDel, LAdd, LNoNl>>,
      <<LHunk1, LAdd, LCtx>>,
      <<LAdd, LFileA, LEmpty>> }

MaxCalls == 3

InitCalls == IxIdle /\ PlIdle /\ RunIdle /\ MtIdle

\* one call of the function on the text with the lines d, from the
\* declarations of its variables to its return
Call(d) ==
    /\ Len(returned) < MaxCalls
    /\ LET st == ParseLines(ParseInit, d) IN
         /\ currentFile' = st.currentFile
         /\ diffPosition' = st.diffPosition
         /\ currentNewLine' = st.currentNewLine
         /\ fileLineMap' = st.fileLineMap
         /\ returned' = Append(returned, [text |-> d, map |-> st.fileLineMap])
    /\ UNCHANGED <<log, plVars, runVars, mtVars>>

NextCalls == \E d \in CallDiffs : Call(d)

SpecCalls == InitCalls /\ [][NextCalls]_vars

-----------------------------------------------------------------------------
(* run: the inline comment loop (index.js 498-517) *)

\* severityLevel[s]
SeverityLevel(s) ==
    CASE s = "suggestion" -> 1 [] s = "warning" -> 2 [] s = "error" -> 3
      [] OTHER -> Undefined

\* severityLevel[minSeverity] || 1
MinLevel(ms) == IF SeverityLevel(ms) = Undefined THEN 1 ELSE SeverityLevel(ms)

\* seeded fault: no severity filter
BelowMinLevel_Never(sev, ms) == FALSE

\* severityLevel[comment.severity] < minLevel (undefined < n is false)
BelowMinLevel(sev, ms) ==
    SeverityLevel(sev) # Undefined /\ SeverityLevel(sev) < MinLevel(ms)

\* (linePositionMap[comment.file] || {})[String(comment.line)]
LookupPosition(m, file, line) ==
    IF file \in DOMAIN m /\ line \in DOMAIN m[file] THEN m[file][line]
    ELSE Undefined

\* if (position): undefined and 0 are falsy
Truthy(position) == position # Undefined /\ position # 0

\* { error: RED, warning: YELLOW, suggestion: BLUE }[severity] || BLUE
SeverityEmoji(sev) ==
    CASE sev = "error" -> "RED_CIRCLE" [] sev = "warning" -> "YELLOW_CIRCLE"
      [] OTHER -> "BLUE_CIRCLE"

\* comment.severity.toUpperCase()
SeverityUpper(sev) ==
    CASE sev = "error" -> "ERROR" [] sev = "warning" -> "WARNING"
      [] sev = "suggestion" -> "SUGGESTION" [] sev = "info" -> "INFO"

\* the object pushed for the issue c
PlacedComment(c, position) ==
    [path |-> c.file, position |-> position,
     body |-> <<SeverityEmoji(c.severity), " **", SeverityUpper(c.severity),
                "**: ", c.comment>>]

\* seeded fault: an issue whose file and position already carry a comment is merged
PushComment_Merged(rc, c, m, ms) ==
    IF BelowMinLevel(c.severity, ms) THEN rc
    ELSE LET position == LookupPosition(m, c.file, c.line) IN
         IF Truthy(position) /\ ~\E i \in 1..Len(rc) :
                                   rc[i].path = c.file /\ rc[i].position = position
         THEN Append(rc, PlacedComment(c, position)) ELSE rc

\* one iteration of the loop over review.line_comments
PushComment(rc, c, m, ms) ==
    IF BelowMinLevel(c.severity, ms) THEN rc
    ELSE LET position == LookupPosition(m, c.file, c.line) IN
         IF Truthy(position) THEN Append(rc, PlacedComment(c, position)) ELSE rc

\* the diffs whose position maps the loop is run with
SampleDiffs ==
    { <<LFileA, LHunk1, LCtx, LAdd, LCtx>>,
      <<LFileA, LHunk1, LAdd, LFileB, LCtx>> }

MinSeverityInputs == {"suggestion", "warning", "error", "high"}

\* the issues of the model's response: review.line_comments
Issues ==
    [file : {<<"a">>, <<"b">>}, line : {1, 2, 4},
     severity : {"suggestion", "warning", "error", "info"}, comment : {"m"}]

MaxIssues == 2

InitPlacer ==
    /\ IxIdle /\ RunIdle /\ MtIdle
    /\ linePositionMap \in {parseDiffForLinePositions(d) : d \in SampleDiffs}
    /\ minSeverity \in MinSeverityInputs
    /\ lineComments = <<>>
    /\ reviewComments = <<>>

\* the loop takes the next issue of review.line_comments
PlaceIssue(c) ==
    /\ Len(lineComments) < MaxIssues
    /\ lineComments' = Append(lineComments, c)
    /\ reviewComments' = PushComment(reviewComments, c, linePositionMap, minSeverity)
    /\ UNCHANGED <<linePositionMap, minSeverity, ixVars, runVars, mtVars>>

NextPlacer == \E c \in Issues : PlaceIssue(c)

SpecPlacer == InitPlacer /\ [][NextPlacer]_vars

-----------------------------------------------------------------------------
(* isScenarioPreviouslyChecked (index.js 1104-1129) *)

LowerLetters ==
    {"a", "b", "c", "d", "e", "f", "g", "h", "i", "j", "k", "l", "m",
     "n", "o", "p", "q", "r", "s", "t", "u", "v", "w", "x", "y", "z"}
UpperLetters ==
    {"A", "B", "C", "D", "E", "F", "G", "H", "I", "J", "K", "L", "M",
     "N", "O", "P", "Q", "R", "S", "T", "U", "V", "W", "X", "Y", "Z"}

\* \w and \s of the patterns
IsWordChar(c) == c \in LowerLetters \cup UpperLetters \cup Digits \cup {"_"}
IsSpaceChar(c) == c \in {" ", "\t", "\n"}

\* toLowerCase() of one character
LowerChar(c) ==
    CASE c = "A" -> "a" [] c = "B" -> "b" [] c = "C" -> "c" [] c = "D" -> "d"
      [] c = "E" -> "e" [] c = "F" -> "f" [] c = "G" -> "g" [] c = "H" -> "h"
      [] c = "I" -> "i" [] c = "J" -> "j" [] c = "K" -> "k" [] c = "L" -> "l"
      [] c = "M" -> "m" [] c = "N" -> "n" [] c = "O" -> "o" [] c = "P" -> "p"
      [] c = "Q" -> "q" [] c = "R" -> "r" [] c = "S" -> "s" [] c = "T" -> "t"
      [] c = "U" -> "u" [] c = "V" -> "v" [] c = "W" -> "w" [] c = "X" -> "x"
      [] c = "Y" -> "y" [] c = "Z" -> "z" [] OTHER -> c

ToLowerCase(s) == [i \in 1..Len(s) |-> LowerChar(s[i])]

\* replace(/[^\w\s]/g, '')
StripPunctuation(s) == SelectSeq(s, LAMBDA c : IsWordChar(c) \/ IsSpaceChar(c))

\* String.prototype.trim
RECURSIVE TrimLeft(_)
TrimLeft(s) ==
    IF s # <<>> /\ IsSpaceChar(Head(s)) THEN TrimLeft(Tail(s)) ELSE s
RECURSIVE TrimRight(_)
TrimRight(s) ==
    IF s # <<>> /\ IsSpaceChar(s[Len(s)])
    THEN TrimRight(SubSeq(s, 1, Len(s) - 1)) ELSE s
Trim(s) == TrimRight(TrimLeft(s))

\* normalize = text => text.toLowerCase().replace(/[^\w\s]/g, '').trim()
Normalize(text) == Trim(StripPunctuation(ToLowerCase(text)))

\* new Set(s.split(/\s+/)): the words of s; ''.split(/\s+/) is ['']
RECURSIVE SplitWords(_, _)
SplitWords(s, word) ==
    IF s = <<>> THEN {word}
    ELSE IF IsSpaceChar(Head(s))
         THEN {word} \cup SplitWords(TrimLeft(s), <<>>)
         ELSE SplitWords(Tail(s), Append(word, Head(s)))
WordSet(s) == SplitWords(s, <<>>)

Min(a, b) == IF a < b THEN a ELSE b

\* seeded fault: the word overlap must exceed 70%
MatchesChecked_Exclusive(a, b) ==
    \/ a = b
    \/ Includes(a, b) \/ Includes(b, a)
    \/ LET scenarioWords == WordSet(a)
           checkedWords == WordSet(b)
           intersection == scenarioWords \cap checkedWords
           minSize == Min(Cardinality(scenarioWords), Cardinality(checkedWords))
       IN minSize > 0 /\ 10 * Cardinality(intersection) > 7 * minSize

\* seeded fault: an empty normalized string is contained in nothing
MatchesChecked_EmptyNotContained(a, b) ==
    \/ a = b
    \/ (b # <<>> /\ Includes(a, b)) \/ (a # <<>> /\ Includes(b, a))
    \/ LET scenarioWords == WordSet(a)
           checkedWords == WordSet(b)
           intersection == scenarioWords \cap checkedWords
           minSize == Min(Cardinality(scenarioWords), Cardinality(checkedWords))
       IN minSize > 0 /\ 10 * Cardinality(intersection) >= 7 * minSize

\* seeded fault: containment is tested in one direction only
MatchesChecked_OneWay(a, b) ==
    \/ a = b
    \/ Includes(a, b)
    \/ LET scenarioWords == WordSet(a)
           checkedWords == WordSet(b)
           intersection == scenarioWords \cap checkedWords
           minSize == Min(Cardinality(scenarioWords), Cardinality(checkedWords))
       IN minSize > 0 /\ 10 * Cardinality(intersection) >= 7 * minSize

\* the three tests of the loop body on the normalized strings a and b
MatchesChecked(a, b) ==
    \/ a = b
    \/ Includes(a, b) \/ Includes(b, a)
    \/ LET scenarioWords == WordSet(a)
           checkedWords == WordSet(b)
           intersection == scenarioWords \cap checkedWords
           minSize == Min(Cardinality(scenarioWords), Cardinality(checkedWords))
       IN minSize > 0 /\ 10 * Cardinality(intersection) >= 7 * minSize

\* seeded fault: with nothing checked before, every scenario counts as checked
isScenarioPreviouslyChecked_EmptyMatches(scenario, previousChecked) ==
    \/ previousChecked = {}
    \/ \E checked \in previousChecked :
          MatchesChecked(Normalize(scenario), Normalize(checked))

isScenarioPreviouslyChecked(scenario, previousChecked) ==
    \E checked \in previousChecked :
        MatchesChecked(Normalize(scenario), Normalize(checked))

-----------------------------------------------------------------------------
(* buildReviewBody (index.js 969-1095).  A document is its sequence of
   lines; a part that ends in a newline contributes an empty last line. *)

\* the table e
EmojiTable(emoji) ==
    IF emoji
    THEN [detective |-> "U+1F50D", summary |-> "U+1F4DD", tests |-> "U+1F9EA",
          qa |-> "U+1F3AF", questions |-> "U+2753", quality |-> "U+1F9F9",
          verdict |-> "U+1F3C1", approved |-> "U+2705",
          needs_changes |-> "U+26A0", do_not_merge |-> "U+274C",
          warning |-> "U+26A0"]
    ELSE [detective |-> "[SHERLOCK]", summary |-> "[SUMMARY]", tests |-> "[TESTS]",
          qa |-> "[QA]", questions |-> "[?]", quality |-> "[QUALITY]",
          verdict |-> "[VERDICT]", approved |-> "[OK]",
          needs_changes |-> "[CHANGES]", do_not_merge |-> "[STOP]",
          warning |-> "[!]"]

\* verdictEmoji[review.verdict] || e.needs_changes
VerdictEmoji(e, verdict) ==
    CASE verdict = "approved" -> e.approved
      [] verdict = "do_not_merge" -> e.do_not_merge
      [] OTHER -> e.needs_changes

\* verdictText[review.verdict] || review.verdict
VerdictText(verdict) ==
    CASE verdict = "approved" -> "Approved"
      [] verdict = "needs_changes" -> "Needs Changes"
      [] verdict = "do_not_merge" -> "Do Not Merge"
      [] OTHER -> verdict

\* a text field is falsy when missing or empty
Present(text) == text # Null /\ text # <<>>

\* list?.length || 0
Length(list) == IF list = Null THEN 0 ELSE Len(list)

\* list.join(sep)
RECURSIVE Join(_, _)
Join(list, sep) ==
    IF list = <<>> THEN <<>>
    ELSE IF Len(list) = 1 THEN list[1]
    ELSE list[1] \o <<sep>> \o Join(Tail(list), sep)

\* `## ${e.detective} SherlockQA's Review\n`
HeaderPart(e) == << <<"## ", e.detective, " SherlockQA's Review">>, <<>> >>

\* `- ${checkbox} ${scenario}`
ChecklistLine(isChecked, scenario) ==
    <<"-", " ", "[", IF isChecked THEN "x" ELSE " ", "]", " ">> \o scenario

\* the lines pushed by review.qa_scenarios.forEach
ChecklistLines(scenarios, previousChecked) ==
    [i \in 1..Len(scenarios) |->
        ChecklistLine(isScenarioPreviouslyChecked(scenarios[i], previousChecked),
                      scenarios[i])]

\* typeof code_quality === 'string' ? code_quality : code_quality.summary || ''
QualityText(cq) ==
    IF cq.kind = "string" THEN cq.text
    ELSE IF Present(cq.summary) THEN cq.summary ELSE <<>>

\* review.code_quality is truthy; it is [kind |-> "absent"] when missing,
\* [kind |-> "string", text |-> ..] or [kind |-> "object", summary, issues]
HasCodeQuality(rv) ==
    /\ rv.code_quality.kind # "absent"
    /\ ~(rv.code_quality.kind = "string" /\ rv.code_quality.text = <<>>)

CompactBody(rv, prAuthor, previousChecked, e) ==
    HeaderPart(e)
    \o << <<"**Verdict:** ", VerdictEmoji(e, rv.verdict), " ", VerdictText(rv.verdict),
            " | ", ToString(Length(rv.line_comments)), " issues U+00B7 ",
            ToString(Length(rv.qa_scenarios)), " QA scenarios">>
          \o (IF Length(rv.questions) > 0
              THEN <<" U+00B7 ", ToString(Length(rv.questions)), " questions">>
              ELSE <<>>),
          <<>> >>
    \o (IF Present(rv.verdict_reason)
        THEN << <<"> ">> \o rv.verdict_reason, <<>> >> ELSE <<>>)
    \o << <<"**Summary:** ">>
            \o (IF Present(rv.summary) THEN rv.summary ELSE <<"No summary">>),
          <<>> >>
    \o (IF Present(rv.analysis)
        THEN << <<"**Analysis:** ">> \o rv.analysis, <<>> >> ELSE <<>>)
    \o (IF HasCodeQuality(rv) /\ QualityText(rv.code_quality) # <<>>
        THEN << <<"**Code Quality:** ">> \o QualityText(rv.code_quality), <<>> >>
        ELSE <<>>)
    \o (IF rv.tests_required = TRUE /\ Present(rv.test_suggestion)
        THEN << <<"<details>">>,
                <<"<summary>", e.tests, " <b>Tests Suggested</b></summary>">>, <<>>,
                rv.test_suggestion, <<>>,
                <<"</details>">>, <<>> >>
        ELSE <<>>)
    \o (IF Length(rv.qa_scenarios) > 0
        THEN << <<"<details>">>,
                <<"<summary>", e.qa, " <b>QA Scenarios (",
                  ToString(Length(rv.qa_scenarios)), ")</b></summary>">>, <<>> >>
             \o ChecklistLines(rv.qa_scenarios, previousChecked)
             \o << <<>>, <<"</details>">>, <<>> >>
        ELSE <<>>)
    \o (IF Length(rv.questions) > 0
        THEN << <<"**", e.questions, " Questions:** ">> \o Join(rv.questions, " | "),
                <<>> >>
        ELSE <<>>)

DetailedBody(rv, prAuthor, previousChecked, e) ==
    HeaderPart(e)
    \o << <<"### ", e.summary, " Summary">>,
          IF Present(rv.summary) THEN rv.summary ELSE <<"No summary">>,
          <<>> >>
    \o (IF Present(rv.analysis)
        THEN << <<"### ", "U+1F52C", " Analysis">>, rv.analysis, <<>> >> ELSE <<>>)
    \o (IF rv.tests_required = TRUE /\ Present(rv.test_suggestion)
        THEN << <<"### ", e.tests, " Tests Required">>,
                <<e.warning, " **@", prAuthor,
                  "** - Please add test cases for this change:">>, <<>>,
                rv.test_suggestion, <<>> >>
        ELSE <<>>)
    \o (IF Length(rv.qa_scenarios) > 0
        THEN << <<"### ", e.qa, " QA Test Scenarios">> >>
             \o ChecklistLines(rv.qa_scenarios, previousChecked)
             \o << <<>> >>
        ELSE <<>>)
    \o (IF Length(rv.questions) > 0
        THEN << <<"### ", e.questions, " Questions">> >>
             \o [i \in 1..Len(rv.questions) |-> <<"-", " ">> \o rv.questions[i]]
             \o << <<>> >>
        ELSE <<>>)
    \o (IF HasCodeQuality(rv)
        THEN << <<"### ", e.quality, " Code Quality">> >>
             \o (IF QualityText(rv.code_quality) # <<>>
                 THEN << QualityText(rv.code_quality), <<>> >> ELSE <<>>)
             \o (IF rv.code_quality.kind = "object" /\ Length(rv.code_quality.issues) > 0
                 THEN [i \in 1..Len(rv.code_quality.issues) |->
                          <<"-", " ">> \o rv.code_quality.issues[i]]
                      \o << <<>> >>
                 ELSE <<>>)
        ELSE <<>>)
    \o << <<"### ", e.verdict, " Verdict">>,
          <<VerdictEmoji(e, rv.verdict), " ", VerdictText(rv.verdict)>> >>
    \o (IF Present(rv.verdict_reason)
        THEN << <<>>, <<"> ">> \o rv.verdict_reason >> ELSE <<>>)

\* seeded fault: the detailed layout forgets the checked scenarios
buildReviewBody_DetailedForgets(rv, prAuthor, previousChecked, style, emoji) ==
    IF style = "compact"
    THEN CompactBody(rv, prAuthor, previousChecked, EmojiTable(emoji))
    ELSE DetailedBody(rv, prAuthor, {}, EmojiTable(emoji))

buildReviewBody(rv, prAuthor, previousChecked, style, emoji) ==
    IF style = "compact"
    THEN CompactBody(rv, prAuthor, previousChecked, EmojiTable(emoji))
    ELSE DetailedBody(rv, prAuthor, previousChecked, EmojiTable(emoji))

-----------------------------------------------------------------------------
(* findAndDismissPreviousReview (index.js 560-604) *)

\* "## (magnifier) SherlockQA's Review"
Marker == <<"## ", "U+1F50D", " SherlockQA's Review">>

\* seeded fault: every review with a body is taken for a SherlockQA review
IsSherlockReview_AnyBody(b) == b # Null

\* review.body && review.body.includes(Marker)
IsSherlockReview(b) ==
    b # Null /\ \E i \in 1..Len(b) : Includes(b[i], Marker)

\* /- \[x\] (.+)/i matches in the line at index i
CheckedAt(line, i) ==
    /\ i + 6 <= Len(line)
    /\ line[i] = "-" /\ line[i + 1] = " " /\ line[i + 2] = "["
    /\ line[i + 3] \in {"x", "X"} /\ line[i + 4] = "]" /\ line[i + 5] = " "

HasCheckedItem(line) == \E i \in 1..Len(line) : CheckedAt(line, i)

\* match[1] of the leftmost match in the line: the rest of the line
CheckedText(line) ==
    LET i == CHOOSE k \in 1..Len(line) :
                 CheckedAt(line, k) /\ \A j \in 1..(k - 1) : ~CheckedAt(line, j)
    IN SubSeq(line, i + 6, Len(line))

\* what the loop over review.body.matchAll(...) adds to checkedScenarios
CheckedItems(b) ==
    {Trim(CheckedText(b[i])) : i \in {k \in 1..Len(b) : HasCheckedItem(b[k])}}

\* seeded fault: only the most recent SherlockQA review is gone through
SherlockIndices_LatestOnly(reviews) ==
    LET all == SelectSeq([i \in 1..Len(reviews) |-> i],
                         LAMBDA i : IsSherlockReview(reviews[i].body))
    IN IF all = <<>> THEN <<>> ELSE <<all[Len(all)]>>

\* the indices of the SherlockQA reviews among the listed reviews, in order
SherlockIndices(reviews) ==
    SelectSeq([i \in 1..Len(reviews) |-> i],
              LAMBDA i : IsSherlockReview(reviews[i].body))

-----------------------------------------------------------------------------
(* run (index.js 426-558): the runs of the action on one pull request, which
   another reviewer may have reviewed before, and the reader who ticks
   checkboxes of the latest review between runs *)

SLogin == <<"T", "e", "s", "t", " ", "l", "o", "g", "i", "n">>
SUpload == <<"U", "p", "l", "o", "a", "d", "!">>

\* the fallback of parseReviewResponse (index.js 918-926)
FallbackReview ==
    [summary |-> <<"Unable to parse AI response">>, line_comments |-> <<>>,
     tests_required |-> FALSE, test_suggestion |-> <<>>, qa_scenarios |-> <<>>,
     questions |-> <<>>, verdict |-> "needs_changes", verdict_reason |-> Null,
     analysis |-> Null, code_quality |-> [kind |-> "absent"]]

\* a summary that quotes a ticked box in the middle of its text
SummaryWithTick == <<"O", "K", " ", "-", " ", "[", "x", "]", " ", "a", "l", "l">>

\* responses of the model provider, as parsed by parseReviewResponse
ReviewSamples ==
    { FallbackReview,
      [FallbackReview EXCEPT !.summary = <<"Adds login">>,
                             !.qa_scenarios = <<SLogin, SUpload>>,
                             !.questions = <<<<"Why?">>>>,
                             !.tests_required = TRUE,
                             !.test_suggestion = <<"Test the form">>,
                             !.verdict_reason = <<"Missing tests">>],
      [FallbackReview EXCEPT !.summary = <<"Adds login">>,
                             !.qa_scenarios = <<SLogin>>,
                             !.verdict = "approved",
                             !.analysis = <<"Small change">>,
                             !.code_quality = [kind |-> "object",
                                               summary |-> <<"Clean">>,
                                               issues |-> <<<<"Long method">>>>]],
      [FallbackReview EXCEPT !.summary = SummaryWithTick,
                             !.line_comments =
                                 <<[file |-> <<"a">>, line |-> 2,
                                    severity |-> "error", comment |-> "m"]>>,
                             !.verdict = "do_not_merge"] }

\* the JSON value null, as JSON.parse returns it
JsonNull == [json |-> "null"]

\* what the provider returns: text that JSON.parse rejects, or the text of a
\* JSON value, which is one of the reviews above or the JSON value null
ProviderResponses ==
    {[parses |-> FALSE, value |-> JsonNull]}
    \cup {[parses |-> TRUE, value |-> v] :
             v \in (ReviewSamples \ {FallbackReview}) \cup {JsonNull}}

\* parseReviewResponse (index.js 904-928)
parseReviewResponse(content) ==
    IF content.parses THEN content.value ELSE FallbackReview

\* the loop over review.line_comments (index.js 503-517)
RECURSIVE ReviewComments(_, _, _, _)
ReviewComments(rc, comments, m, ms) ==
    IF comments = <<>> THEN rc
    ELSE ReviewComments(PushComment(rc, Head(comments), m, ms), Tail(comments), m, ms)

\* the diff of the pull request
RunDiff == <<LFileA, LHunk1, LCtx, LAdd, LCtx>>

\* the event of the earlier revision, which has no auto-approve input
\* (index.js 92-98)
ReviewEventV1(verdict) ==
    IF verdict = "do_not_merge" THEN "REQUEST_CHANGES" ELSE "COMMENT"

\* seeded fault: an approved verdict is submitted as APPROVE whatever the input
ReviewEvent_ApproveAlways(verdict, approve) ==
    IF verdict = "approved" THEN "APPROVE"
    ELSE IF verdict = "do_not_merge" THEN "REQUEST_CHANGES"
    ELSE "COMMENT"

\* let event = 'COMMENT'; if ... (index.js 523-530)
ReviewEvent(verdict, approve) ==
    IF verdict = "approved" /\ approve THEN "APPROVE"
    ELSE IF verdict = "do_not_merge" THEN "REQUEST_CHANGES"
    ELSE "COMMENT"

\* the state the platform gives a review submitted with the event
ReviewState(ev) ==
    CASE ev = "APPROVE" -> "APPROVED"
      [] ev = "REQUEST_CHANGES" -> "CHANGES_REQUESTED"
      [] OTHER -> "COMMENTED"

PrAuthor == "octocat"

MaxRuns == 2

\* the body of a review another reviewer wrote: a ticked checklist line but
\* no SherlockQA header
OtherBody == << <<"L", "G", "T", "M">>, ChecklistLine(TRUE, SLogin) >>

\* the reviews of the pull request when the action first runs on it: none,
\* or one by another reviewer
PriorReviews ==
    { <<>>,
      <<[body |-> OtherBody, state |-> "COMMENTED", event |-> "COMMENT",
         comments |-> <<>>, run |-> 0]>> }

InitRun ==
    /\ IxIdle /\ PlIdle /\ MtIdle
    /\ pc = "idle" /\ prReviews \in PriorReviews /\ sherlockReviews = <<>>
    /\ listed = FALSE /\ previousCheckedScenarios = {}
    /\ review = Null /\ reviewStyle = "compact" /\ useEmoji = TRUE
    /\ body = Null /\ humanChecked = {} /\ runNo = 0
    /\ autoApprove = FALSE /\ response = Null /\ event = Null
    /\ failed = FALSE /\ dismissCalls = {}
    /\ eventName = Null /\ calls = <<>>

\* an external call that returned, and one that threw
Called(api) == [api |-> api, ok |-> TRUE]
Threw(api) == [api |-> api, ok |-> FALSE]

\* the action starts on a pull_request event with its inputs read
StartRun(style, emoji, approve) ==
    /\ pc = "idle" /\ runNo < MaxRuns
    /\ pc' = "find"
    /\ reviewStyle' = style /\ useEmoji' = emoji /\ autoApprove' = approve
    /\ previousCheckedScenarios' = {} /\ sherlockReviews' = <<>>
    /\ listed' = FALSE /\ review' = Null /\ body' = Null
    /\ response' = Null /\ event' = Null /\ failed' = FALSE
    /\ eventName' = "pull_request" /\ calls' = <<>>
    /\ UNCHANGED <<prReviews, humanChecked, runNo, dismissCalls, ixVars, plVars, mtVars>>

\* listReviews succeeds; the SherlockQA reviews are picked out
ListReviews ==
    /\ pc = "find"
    /\ sherlockReviews' = SherlockIndices(prReviews)
    /\ listed' = TRUE
    /\ pc' = "dismiss"
    /\ calls' = calls \o <<Called("listReviews")>>
    /\ UNCHANGED <<prReviews, previousCheckedScenarios, review, reviewStyle,
                   useEmoji, body, humanChecked, runNo, autoApprove, response,
                   event, failed, dismissCalls, eventName,
                   ixVars, plVars, mtVars>>

\* listReviews throws: the outer catch warns and the empty set is returned
ListReviewsFails ==
    /\ pc = "find"
    /\ pc' = "review"
    /\ calls' = calls \o <<Threw("listReviews")>>
    /\ UNCHANGED <<prReviews, sherlockReviews, listed, previousCheckedScenarios,
                   review, reviewStyle, useEmoji, body, humanChecked, runNo,
                   autoApprove, response, event, failed, dismissCalls,
                   eventName,
                   ixVars, plVars, mtVars>>

\* seeded fault: a review whose dismissal throws contributes no checked items
DismissNext_FailureDropsItems(dismissed) ==
    /\ pc = "dismiss" /\ sherlockReviews # <<>>
    /\ LET i == Head(sherlockReviews) IN
         /\ dismissed => prReviews[i].state \in {"APPROVED", "CHANGES_REQUESTED"}
         /\ previousCheckedScenarios' =
                IF dismissed
                THEN previousCheckedScenarios \cup CheckedItems(prReviews[i].body)
                ELSE previousCheckedScenarios
         /\ dismissCalls' = dismissCalls \cup {i}
         /\ prReviews' = IF dismissed
                         THEN [prReviews EXCEPT ![i].state = "DISMISSED"]
                         ELSE prReviews
    /\ sherlockReviews' = Tail(sherlockReviews)
    /\ calls' = calls \o <<IF dismissed THEN Called("dismissReview")
                                      ELSE Threw("dismissReview")>>
    /\ UNCHANGED <<pc, listed, review, reviewStyle, useEmoji, body, humanChecked,
                   runNo, autoApprove, response, event, failed, eventName,
                   ixVars, plVars, mtVars>>

\* one iteration of the loop over sherlockReviews; dismissReview succeeds
\* (dismissed) or throws (caught inside the loop), and it always throws for
\* a review that is not in a dismissable state (index.js 594)
DismissNext(dismissed) ==
    /\ pc = "dismiss" /\ sherlockReviews # <<>>
    /\ LET i == Head(sherlockReviews) IN
         /\ dismissed => prReviews[i].state \in {"APPROVED", "CHANGES_REQUESTED"}
         /\ previousCheckedScenarios' =
                previousCheckedScenarios \cup CheckedItems(prReviews[i].body)
         /\ dismissCalls' = dismissCalls \cup {i}
         /\ prReviews' = IF dismissed
                         THEN [prReviews EXCEPT ![i].state = "DISMISSED"]
                         ELSE prReviews
    /\ sherlockReviews' = Tail(sherlockReviews)
    /\ calls' = calls \o <<IF dismissed THEN Called("dismissReview")
                                      ELSE Threw("dismissReview")>>
    /\ UNCHANGED <<pc, listed, review, reviewStyle, useEmoji, body, humanChecked,
                   runNo, autoApprove, response, event, failed, eventName,
                   ixVars, plVars, mtVars>>

\* the loop is over; findAndDismissPreviousReview returns
FindReturns ==
    /\ pc = "dismiss" /\ sherlockReviews = <<>>
    /\ pc' = "review"
    /\ UNCHANGED <<prReviews, sherlockReviews, listed, previousCheckedScenarios,
                   review, reviewStyle, useEmoji, body, humanChecked, runNo,
                   autoApprove, response, event, failed, dismissCalls,
                   eventName, calls,
                   ixVars, plVars, mtVars>>

\* the diff and the changed files are fetched, some file is left to review and
\* getAIReview returns the parsed response; reading review.verdict of the
\* value null throws (index.js 492) and the catch of run marks the run failed
GetAIReview(content) ==
    /\ pc = "review"
    /\ response' = content
    /\ review' = parseReviewResponse(content)
    /\ IF parseReviewResponse(content) = JsonNull
       THEN pc' = "idle" /\ failed' = TRUE /\ runNo' = runNo + 1
       ELSE pc' = "post" /\ UNCHANGED <<failed, runNo>>
    /\ calls' = calls \o <<Called("pulls.get"), Called("listFiles"),
                          Called("getAIReview")>>
    /\ UNCHANGED <<prReviews, sherlockReviews, listed, previousCheckedScenarios,
                   reviewStyle, useEmoji, body, humanChecked, autoApprove, event,
                   dismissCalls, eventName,
                   ixVars, plVars, mtVars>>

\* the review createReview is called with (index.js 496-541)
SubmittedReview ==
    LET ev == ReviewEvent(review.verdict, autoApprove) IN
    [body |-> buildReviewBody(review, PrAuthor, previousCheckedScenarios,
                              reviewStyle, useEmoji),
     state |-> ReviewState(ev),
     event |-> ev,
     comments |-> ReviewComments(<<>>, review.line_comments,
                                 parseDiffForLinePositions(RunDiff), minSeverity),
     run |-> runNo + 1]

\* the body is built and createReview posts it; a do_not_merge verdict then
\* marks the run failed (index.js 551-553)
CreateReview ==
    /\ pc = "post"
    /\ body' = SubmittedReview.body
    /\ event' = SubmittedReview.event
    /\ prReviews' = Append(prReviews, SubmittedReview)
    /\ failed' = (review.verdict = "do_not_merge")
    /\ humanChecked' = {}
    /\ runNo' = runNo + 1
    /\ pc' = "idle"
    /\ calls' = calls \o <<Called("createReview")>>
    /\ UNCHANGED <<sherlockReviews, listed, previousCheckedScenarios, review,
                   reviewStyle, useEmoji, autoApprove, response, dismissCalls,
                   eventName,
                   ixVars, plVars, mtVars>>

\* createReview throws (the platform rejects the review); the catch of run
\* marks the run failed (index.js 555-557)
CreateReviewFails ==
    /\ pc = "post"
    /\ body' = SubmittedReview.body
    /\ event' = SubmittedReview.event
    /\ failed' = TRUE
    /\ runNo' = runNo + 1
    /\ pc' = "idle"
    /\ calls' = calls \o <<Threw("createReview")>>
    /\ UNCHANGED <<prReviews, sherlockReviews, listed, previousCheckedScenarios,
                   review, reviewStyle, useEmoji, humanChecked, autoApprove,
                   response, dismissCalls, eventName,
                   ixVars, plVars, mtVars>>

\* between runs a reader ticks the unchecked box at the line k of the latest review
HumanChecks(k) ==
    /\ pc = "idle" /\ prReviews # <<>>
    /\ LET n == Len(prReviews)
           line == prReviews[n].body[k]
       IN /\ Len(line) > 6
          /\ SubSeq(line, 1, 6) = <<"-", " ", "[", " ", "]", " ">>
          /\ prReviews' = [prReviews EXCEPT ![n].body[k][4] = "x"]
          /\ humanChecked' = humanChecked \cup {SubSeq(line, 7, Len(line))}
    /\ UNCHANGED <<pc, sherlockReviews, listed, previousCheckedScenarios, review,
                   reviewStyle, useEmoji, body, runNo, autoApprove, response,
                   event, failed, dismissCalls, eventName, calls,
                   ixVars, plVars, mtVars>>

MaxBodyLines == 30

NextRun ==
    \/ \E style \in {"compact", "detailed"}, emoji \in BOOLEAN :
          StartRun(style, emoji, FALSE)
    \/ ListReviews
    \/ ListReviewsFails
    \/ \E dismissed \in BOOLEAN : DismissNext(dismissed)
    \/ FindReturns
    \/ \E content \in ProviderResponses : GetAIReview(content)
    \/ CreateReview
    \/ CreateReviewFails
    \/ \E k \in 1..MaxBodyLines :
          /\ prReviews # <<>>
          /\ k <= Len(prReviews[Len(prReviews)].body)
          /\ HumanChecks(k)

SpecRun == InitRun /\ [][NextRun]_vars

-----------------------------------------------------------------------------
(* run with auto-approve on or off, in the default layout, on a pull request
   without reviews *)

InitSubmit == IxIdle /\ PlIdle /\ RunIdle /\ MtIdle

NextSubmit ==
    \/ \E approve \in BOOLEAN : StartRun("compact", TRUE, approve)
    \/ ListReviews
    \/ ListReviewsFails
    \/ \E dismissed \in BOOLEAN : DismissNext(dismissed)
    \/ FindReturns
    \/ \E content \in ProviderResponses : GetAIReview(content)
    \/ CreateReview
    \/ CreateReviewFails

SpecSubmit == InitSubmit /\ [][NextSubmit]_vars

-----------------------------------------------------------------------------
(* runs that end early: another triggering event, a failed fetch, no file left
   to review, a provider call that throws *)

OtherEvents == {"push", "issue_comment"}

\* seeded fault: setFailed is called but the run goes on
RunOnOtherEvent_GoesOn(name) ==
    /\ pc = "idle" /\ runNo < MaxRuns
    /\ name # "pull_request"
    /\ eventName' = name /\ calls' = <<>>
    /\ failed' = TRUE
    /\ pc' = "find"
    /\ previousCheckedScenarios' = {} /\ sherlockReviews' = <<>>
    /\ listed' = FALSE /\ review' = Null /\ body' = Null
    /\ response' = Null /\ event' = Null
    /\ UNCHANGED <<runNo, prReviews, reviewStyle, useEmoji, autoApprove,
                   humanChecked, dismissCalls, ixVars, plVars, mtVars>>

\* the action starts on an event that is not pull_request: setFailed and return
RunOnOtherEvent(name) ==
    /\ pc = "idle" /\ runNo < MaxRuns
    /\ name # "pull_request"
    /\ eventName' = name /\ calls' = <<>>
    /\ failed' = TRUE
    /\ runNo' = runNo + 1
    /\ previousCheckedScenarios' = {} /\ sherlockReviews' = <<>>
    /\ listed' = FALSE /\ review' = Null /\ body' = Null
    /\ response' = Null /\ event' = Null
    /\ UNCHANGED <<pc, prReviews, reviewStyle, useEmoji, autoApprove,
                   humanChecked, dismissCalls, ixVars, plVars, mtVars>>

\* pulls.get throws: the catch of run marks the run failed
GetDiffFails ==
    /\ pc = "review"
    /\ calls' = calls \o <<Threw("pulls.get")>>
    /\ failed' = TRUE
    /\ runNo' = runNo + 1
    /\ pc' = "idle"
    /\ UNCHANGED <<prReviews, sherlockReviews, listed, previousCheckedScenarios,
                   review, reviewStyle, useEmoji, body, humanChecked, autoApprove,
                   response, event, dismissCalls, eventName,
                   ixVars, plVars, mtVars>>

\* listFiles throws: the catch of run marks the run failed
ListFilesFails ==
    /\ pc = "review"
    /\ calls' = calls \o <<Called("pulls.get"), Threw("listFiles")>>
    /\ failed' = TRUE
    /\ runNo' = runNo + 1
    /\ pc' = "idle"
    /\ UNCHANGED <<prReviews, sherlockReviews, listed, previousCheckedScenarios,
                   review, reviewStyle, useEmoji, body, humanChecked, autoApprove,
                   response, event, dismissCalls, eventName,
                   ixVars, plVars, mtVars>>

\* every changed file matches an ignore pattern: run returns
NoFilesToReview ==
    /\ pc = "review"
    /\ calls' = calls \o <<Called("pulls.get"), Called("listFiles")>>
    /\ failed' = FALSE
    /\ runNo' = runNo + 1
    /\ pc' = "idle"
    /\ UNCHANGED <<prReviews, sherlockReviews, listed, previousCheckedScenarios,
                   review, reviewStyle, useEmoji, body, humanChecked, autoApprove,
                   response, event, dismissCalls, eventName,
                   ixVars, plVars, mtVars>>

\* the provider call throws inside getAIReview: the catch of run marks the run failed
GetAIReviewFails ==
    /\ pc = "review"
    /\ calls' = calls \o <<Called("pulls.get"), Called("listFiles"),
                          Threw("getAIReview")>>
    /\ failed' = TRUE
    /\ runNo' = runNo + 1
    /\ pc' = "idle"
    /\ UNCHANGED <<prReviews, sherlockReviews, listed, previousCheckedScenarios,
                   review, reviewStyle, useEmoji, body, humanChecked, autoApprove,
                   response, event, dismissCalls, eventName,
                   ixVars, plVars, mtVars>>

NextEvent ==
    \/ StartRun("compact", TRUE, FALSE)
    \/ \E name \in OtherEvents : RunOnOtherEvent(name)
    \/ ListReviews
    \/ ListReviewsFails
    \/ \E dismissed \in BOOLEAN : DismissNext(dismissed)
    \/ FindReturns
    \/ GetDiffFails
    \/ ListFilesFails
    \/ NoFilesToReview
    \/ GetAIReviewFails
    \/ \E content \in ProviderResponses : GetAIReview(content)
    \/ CreateReview
    \/ CreateReviewFails

SpecEvent == InitSubmit /\ [][NextEvent]_vars

-----------------------------------------------------------------------------
(* runs on a pull request that already has a SherlockQA review in which the
   reader ticked a scenario; between runs the reader ticks and unticks boxes
   of the latest review *)

\* the review an earlier run posted for the response with two scenarios
EarlierReview ==
    LET r == CHOOSE x \in ReviewSamples : x.qa_scenarios = <<SLogin, SUpload>>
        ev == ReviewEvent(r.verdict, FALSE)
    IN [body |-> buildReviewBody(r, PrAuthor, {}, "compact", TRUE),
        state |-> ReviewState(ev), event |-> ev, comments |-> <<>>, run |-> 0]

\* the line is an unticked checklist line
IsUncheckedBox(line) ==
    Len(line) > 6 /\ SubSeq(line, 1, 6) = <<"-", " ", "[", " ", "]", " ">>

\* the line is a ticked checklist line
IsCheckedBox(line) ==
    Len(line) > 6 /\ SubSeq(line, 1, 6) = <<"-", " ", "[", "x", "]", " ">>

InitHistory ==
    /\ IxIdle /\ PlIdle /\ MtIdle
    /\ pc = "idle" /\ sherlockReviews = <<>>
    /\ listed = FALSE /\ previousCheckedScenarios = {}
    /\ review = Null /\ reviewStyle = "compact" /\ useEmoji = TRUE
    /\ body = Null /\ humanChecked = {} /\ runNo = 0
    /\ autoApprove = FALSE /\ response = Null /\ event = Null
    /\ failed = FALSE /\ dismissCalls = {}
    /\ eventName = Null /\ calls = <<>>
    /\ \E k \in 1..Len(EarlierReview.body) :
          /\ IsUncheckedBox(EarlierReview.body[k])
          /\ prReviews = <<[EarlierReview EXCEPT !.body[k][4] = "x"]>>

\* between runs a reader unticks the ticked box at the line k of the latest review
HumanUnchecks(k) ==
    /\ pc = "idle" /\ prReviews # <<>>
    /\ LET n == Len(prReviews)
           line == prReviews[n].body[k]
       IN /\ IsCheckedBox(line)
          /\ prReviews' = [prReviews EXCEPT ![n].body[k][4] = " "]
          /\ humanChecked' = humanChecked \ {SubSeq(line, 7, Len(line))}
    /\ UNCHANGED <<pc, sherlockReviews, listed, previousCheckedScenarios, review,
                   reviewStyle, useEmoji, body, runNo, autoApprove, response,
                   event, failed, dismissCalls, eventName, calls,
                   ixVars, plVars, mtVars>>

NextHistory ==
    \/ StartRun("compact", TRUE, FALSE)
    \/ ListReviews
    \/ ListReviewsFails
    \/ \E dismissed \in BOOLEAN : DismissNext(dismissed)
    \/ FindReturns
    \/ \E content \in ProviderResponses : GetAIReview(content)
    \/ CreateReview
    \/ CreateReviewFails
    \/ \E k \in 1..MaxBodyLines :
          /\ prReviews # <<>>
          /\ k <= Len(prReviews[Len(prReviews)].body)
          /\ HumanChecks(k)
    \/ \E k \in 1..MaxBodyLines :
          /\ prReviews # <<>>
          /\ k <= Len(prReviews[Len(prReviews)].body)
          /\ HumanUnchecks(k)

SpecHistory == InitHistory /\ [][NextHistory]_vars

-----------------------------------------------------------------------------
(* isScenarioPreviouslyChecked called on a scenario and a set of checked
   scenarios; matched holds the value returned *)

\* one-letter words separated by single spaces
RECURSIVE Spaced(_)
Spaced(ws) ==
    IF Len(ws) <= 1 THEN ws ELSE <<Head(ws), " ">> \o Spaced(Tail(ws))

TA == <<"A">>
TB == <<"B">>
TLoginBang == <<"T", "e", "s", "t", " ", "l", "o", "g", "i", "n", "!">>
TLoginLower == <<"t", "e", "s", "t", " ", "l", "o", "g", "i", "n">>
TSymbols == <<"?", "!">>
W10 == Spaced(<<"a", "b", "c", "d", "e", "f", "g", "h", "i", "j">>)
W7of10 == Spaced(<<"a", "b", "c", "d", "e", "f", "g", "x", "y", "z">>)
W6of10 == Spaced(<<"w", "b", "c", "d", "e", "f", "g", "x", "y", "q">>)
W2of3 == Spaced(<<"a", "q", "b">>)
W3of4 == Spaced(<<"c", "q", "b", "a">>)

MatcherTexts ==
    {TA, TB, TLoginBang, TLoginLower, TSymbols, W10, W7of10, W6of10, W2of3, W3of4}

MaxChecked == 2

InitMatcher ==
    /\ IxIdle /\ PlIdle /\ RunIdle
    /\ candidate \in MatcherTexts
    /\ checkedSet \in {S \in SUBSET MatcherTexts : Cardinality(S) <= MaxChecked}
    /\ matched = <<>>

\* the call isScenarioPreviouslyChecked(candidate, checkedSet)
Match ==
    /\ matched = <<>>
    /\ matched' = <<isScenarioPreviouslyChecked(candidate, checkedSet)>>
    /\ UNCHANGED <<candidate, checkedSet, ixVars, plVars, runVars>>

NextMatcher == Match

SpecMatcher == InitMatcher /\ [][NextMatcher]_vars

-----------------------------------------------------------------------------
(* buildReviewBody called on review data and a set of checked scenarios, in
   either layout; body holds the document returned *)

MaxScenarios == 2

\* review.qa_scenarios: up to MaxScenarios scenario texts
RECURSIVE ListsUpTo(_, _)
ListsUpTo(S, n) ==
    IF n = 0 THEN {<<>>}
    ELSE LET shorter == ListsUpTo(S, n - 1) IN
         shorter \cup {Append(l, x) : l \in {q \in shorter : Len(q) = n - 1}, x \in S}
ScenarioLists == ListsUpTo({TLoginBang, SUpload}, MaxScenarios)

\* review.code_quality: missing, a string, or an object with or without content
CodeQualities ==
    { [kind |-> "absent"],
      [kind |-> "string", text |-> <<"Clean">>],
      [kind |-> "object", summary |-> <<"Clean">>, issues |-> <<<<"Long method">>>>],
      [kind |-> "object", summary |-> <<>>, issues |-> <<>>] }

\* a field of the review data: missing, or the value
Optional(has, value) == IF has THEN value ELSE Null

\* the review data handed to buildReviewBody; has says which of the fields
\* summary, test_suggestion, questions, verdict_reason, analysis it carries
ComposerReview(has, tests, scenarios, verdict, quality) ==
    [summary |-> Optional(has.summary, <<"Adds login">>),
     line_comments |-> <<>>,
     tests_required |-> tests,
     test_suggestion |-> Optional(has.test_suggestion, <<"Test the form">>),
     qa_scenarios |-> scenarios,
     questions |-> Optional(has.questions, <<<<"Why?">>>>),
     verdict |-> verdict,
     verdict_reason |-> Optional(has.verdict_reason, <<"Missing tests">>),
     analysis |-> Optional(has.analysis, <<"Small change">>),
     code_quality |-> quality]

FieldFlags ==
    [summary : BOOLEAN, test_suggestion : BOOLEAN, questions : BOOLEAN,
     verdict_reason : BOOLEAN, analysis : BOOLEAN]

\* the sets of previously checked scenarios handed to buildReviewBody
ComposerChecked == {{}, {TLoginLower}}

InitComposer ==
    /\ IxIdle /\ PlIdle /\ MtIdle
    /\ pc = "idle" /\ prReviews = <<>> /\ sherlockReviews = <<>>
    /\ listed = FALSE /\ humanChecked = {} /\ runNo = 0
    /\ autoApprove = FALSE /\ response = Null /\ event = Null
    /\ failed = FALSE /\ dismissCalls = {}
    /\ eventName = Null /\ calls = <<>>
    /\ reviewStyle = "compact" /\ useEmoji = TRUE /\ body = Null
    /\ \E has \in FieldFlags, tests \in BOOLEAN, scenarios \in ScenarioLists,
          verdict \in {"approved", "needs_changes"}, quality \in CodeQualities :
          review = ComposerReview(has, tests, scenarios, verdict, quality)
    /\ previousCheckedScenarios \in ComposerChecked

\* the call buildReviewBody(review, prAuthor, previousCheckedScenarios, style, emoji)
Compose(style, emoji) ==
    /\ reviewStyle' = style /\ useEmoji' = emoji
    /\ body' = buildReviewBody(review, PrAuthor, previousCheckedScenarios,
                               style, emoji)
    /\ UNCHANGED <<pc, prReviews, sherlockReviews, listed,
                   previousCheckedScenarios, review, humanChecked, runNo,
                   autoApprove, response, event, failed, dismissCalls,
                   eventName, calls,
                   ixVars, plVars, mtVars>>

NextComposer ==
    \E style \in {"compact", "detailed"}, emoji \in BOOLEAN : Compose(style, emoji)

SpecComposer == InitComposer /\ [][NextComposer]_vars

-----------------------------------------------------------------------------
(* The lines of a diff as the format names them *)

PathA == <<"a">>
PathB == <<"b">>

IsFileHeaderLine(l) == StartsWith(l, FileHeaderPrefix)
IsHunkHeaderLine(l) == l \in {LHunk1, LHunk5}
\* the new-start of a hunk header, read off the header by hand
NewStartOf(l) == IF l = LHunk1 THEN 1 ELSE 5
IsAddedLine(l) == l # <<>> /\ l[1] = "+" /\ ~IsFileHeaderLine(l)
IsContextLine(l) == l # <<>> /\ l[1] = " "
IsNoNewlineMarker(l) == l # <<>> /\ l[1] = "\\"
\* the lines the format gives no meaning inside a hunk: the old-file header
\* and the empty string after the final newline
IsUnrecognizedLine(l) == l = <<>> \/ StartsWith(l, <<"-", "-", "-", " ", "a", "/">>)

LogLines == [i \in 1..Len(log) |-> log[i].line]

\* the loop recorded a position at line i of the text
Recorded(i) == Branch(log[i].file, log[i].line) \in {"add", "other"}
IsHeaderStep(i) == Branch(log[i].file, log[i].line) \in {"file", "hunk"}

-----------------------------------------------------------------------------
C1_SingleHunkShape ==
    /\ Len(log) >= 2
    /\ log[1].line = LFileA
    /\ IsHunkHeaderLine(log[2].line)
    /\ \A i \in 3..Len(log) : IsAddedLine(log[i].line) \/ IsContextLine(log[i].line)

(* C1: file header '+++ b/a', one hunk header with new-start n, then k added
   or context lines: the map is exactly {a: {n+i -> 1+i : 0 <= i < k}}. *)
C1_SingleHunkMap ==
    C1_SingleHunkShape =>
        LET n == NewStartOf(log[2].line)
            k == Len(log) - 2
        IN fileLineMap = [f \in {PathA} |-> [l \in n..(n + k - 1) |-> l - n + 1]]

C1_Witness ==
    /\ LogLines = <<LFileA, LHunk1, LCtx, LAdd, LCtx>>
    /\ fileLineMap[PathA][1] = 1 /\ fileLineMap[PathA][2] = 2
    /\ fileLineMap[PathA][3] = 3

-----------------------------------------------------------------------------
ProcessedAsAddedOrContext(i) ==
    /\ ~NoCurrentFile(log[i].file)
    /\ ~IsFileHeaderLine(log[i].line)
    /\ IsAddedLine(log[i].line) \/ IsContextLine(log[i].line)

(* C2 as stated: every line processed as an added or context line while a
   file is current has its new-file line number as a key of that file's
   sub-map in the map returned when the text ends here. *)
C2_EveryProcessedLineIsKey ==
    \A i \in 1..Len(log) :
        ProcessedAsAddedOrContext(i) =>
            /\ log[i].file \in DOMAIN fileLineMap
            /\ log[i].newLine \in DOMAIN fileLineMap[log[i].file]

HeaderAgainAfter(i) ==
    \E j \in (i + 1)..Len(log) :
        log[j].line = FileHeaderPrefix \o log[i].file

(* C2 amended: the same, for every such line after which no file header
   names the same file again (a header re-initialises its file's sub-map). *)
C2_ProcessedLineIsKeyUntilReheader ==
    \A i \in 1..Len(log) :
        (ProcessedAsAddedOrContext(i) /\ ~HeaderAgainAfter(i)) =>
            /\ log[i].file \in DOMAIN fileLineMap
            /\ log[i].newLine \in DOMAIN fileLineMap[log[i].file]

C2_Witness ==
    /\ LogLines = <<LFileA, LHunk5, LAdd, LFileB, LCtx>>
    /\ 5 \in DOMAIN fileLineMap[PathA]
    /\ 6 \in DOMAIN fileLineMap[PathB]

-----------------------------------------------------------------------------
(* C3: a line that is none of file header, hunk header, added, removed,
   context line or no-newline marker is skipped: the step that consumes it
   changes neither the map nor diffPosition nor currentNewLine. *)
C3_UnrecognizedLineSkipped ==
    [][IsUnrecognizedLine(log'[Len(log')].line) =>
          UNCHANGED <<fileLineMap, diffPosition, currentNewLine>>]_vars

-----------------------------------------------------------------------------
(* C4: every diff position stored in the map is at least 1. *)
C4_PositionsAtLeastOne ==
    \A f \in DOMAIN fileLineMap : \A l \in DOMAIN fileLineMap[f] :
        fileLineMap[f][l] >= 1

-----------------------------------------------------------------------------
(* C5 as stated: within one file's sub-map the position is strictly
   increasing in the new-file line number. *)
C5_PositionsIncreaseInFile ==
    \A f \in DOMAIN fileLineMap : \A l1, l2 \in DOMAIN fileLineMap[f] :
        l1 < l2 => fileLineMap[f][l1] < fileLineMap[f][l2]

\* the line of the text that wrote the entry the map now holds for (f, l)
LastWriter(f, l) ==
    CHOOSE i \in 1..Len(log) :
        /\ Recorded(i) /\ log[i].file = f /\ log[i].newLine = l
        /\ \A j \in (i + 1)..Len(log) :
              ~(Recorded(j) /\ log[j].file = f /\ log[j].newLine = l)

SameHunk(i, j) ==
    \A k \in (IF i < j THEN i ELSE j)..(IF i < j THEN j ELSE i) : ~IsHeaderStep(k)

(* C5 amended: the position is strictly increasing in the line number among
   the entries of a file written within one contiguous hunk (no hunk header
   and no file header between the lines that wrote them). *)
C5_PositionsIncreaseInHunk ==
    \A f \in DOMAIN fileLineMap : \A l1, l2 \in DOMAIN fileLineMap[f] :
        (l1 < l2 /\ SameHunk(LastWriter(f, l1), LastWriter(f, l2))) =>
            fileLineMap[f][l1] < fileLineMap[f][l2]

C5_Witness ==
    /\ LogLines = <<LFileA, LHunk5, LAdd, LDel, LAdd>>
    /\ fileLineMap[PathA][5] = 1 /\ fileLineMap[PathA][6] = 3

-----------------------------------------------------------------------------
(* The placer's claims *)

AtOrAboveThreshold(sev, ms) ==
    /\ sev \in {"suggestion", "warning", "error"}
    /\ ms \in {"suggestion", "warning", "error"}
    /\ SeverityLevel(sev) >= SeverityLevel(ms)

HasEntry(m, file, line) == file \in DOMAIN m /\ line \in DOMAIN m[file]

LastIssue == lineComments'[Len(lineComments')]

(* C6: an issue at or above the threshold gets a comment, carrying position
   positionMap[file][line], if and only if the map has an entry for its
   (file, line); without an entry nothing is emitted for it. *)
C6_EmittedIffEntry ==
    [][AtOrAboveThreshold(LastIssue.severity, minSeverity) =>
          IF HasEntry(linePositionMap, LastIssue.file, LastIssue.line)
          THEN /\ Len(reviewComments') = Len(reviewComments) + 1
               /\ reviewComments'[Len(reviewComments')].path = LastIssue.file
               /\ reviewComments'[Len(reviewComments')].position =
                      linePositionMap[LastIssue.file][LastIssue.line]
          ELSE reviewComments' = reviewComments]_vars

StrictlyBelow(sev, ms) ==
    \/ sev = "suggestion" /\ ms \in {"warning", "error"}
    \/ sev = "warning" /\ ms = "error"

(* C7: no comment is emitted for an issue whose severity is strictly below
   the minimum severity (suggestion < warning < error). *)
C7_NothingBelowThreshold ==
    [][StrictlyBelow(LastIssue.severity, minSeverity) =>
          reviewComments' = reviewComments]_vars

C7_Witness ==
    /\ minSeverity = "warning"
    /\ Len(lineComments) = 2
    /\ lineComments[1].severity = "suggestion"
    /\ HasEntry(linePositionMap, lineComments[1].file, lineComments[1].line)
    /\ linePositionMap[lineComments[1].file][lineComments[1].line] >= 1
    /\ lineComments[2] = [lineComments[1] EXCEPT !.severity = "warning"]
    /\ Len(reviewComments) = 1
    /\ reviewComments[1].body[3] = "WARNING"

Survives(c) ==
    /\ ~StrictlyBelow(c.severity, minSeverity)
    /\ HasEntry(linePositionMap, c.file, c.line)
    /\ linePositionMap[c.file][c.line] # 0

(* C8: the placed comments are the surviving issues (not strictly below the
   threshold, position found and not 0), one comment each, in input order;
   issues at the same file and position are not merged. *)
C8_OrderPreservingImage ==
    LET surv == SelectSeq(lineComments, Survives) IN
    /\ Len(reviewComments) = Len(surv)
    /\ \A i \in 1..Len(surv) :
          /\ reviewComments[i].path = surv[i].file
          /\ reviewComments[i].position = linePositionMap[surv[i].file][surv[i].line]
          /\ reviewComments[i].body[3] = SeverityUpper(surv[i].severity)
          /\ reviewComments[i].body[5] = surv[i].comment

C8_Witness ==
    /\ Len(lineComments) = 2
    /\ lineComments[1].severity = "warning" /\ lineComments[2].severity = "error"
    /\ Len(reviewComments) = 2
    /\ reviewComments[1].path = reviewComments[2].path
    /\ reviewComments[1].position = reviewComments[2].position
    /\ reviewComments[1].body[3] = "WARNING" /\ reviewComments[2].body[3] = "ERROR"

-----------------------------------------------------------------------------
(* C9: every document the composer produces contains the header marker the
   reconciler tests for, in both layouts and with emoji on or off. *)
C9_ComposedBodyHasMarker ==
    \A i \in 1..Len(prReviews) :
        prReviews[i].run > 0 => IsSherlockReview(prReviews[i].body)

RendersChecked(b, scenario) ==
    /\ \E k \in 1..Len(b) : b[k] = ChecklistLine(TRUE, scenario)
    /\ ~\E k \in 1..Len(b) : b[k] = ChecklistLine(FALSE, scenario)

(* C10: a scenario rendered by run N whose box a reader then ticked is
   rendered checked by run N+1 whenever run N+1's review has a scenario with
   the same text (run N+1 having listed the reviews). *)
C10_TickedScenarioStaysChecked ==
    [][(pc = "post" /\ pc' = "idle" /\ listed) =>
          \A k \in 1..Length(review.qa_scenarios) :
              review.qa_scenarios[k] \in humanChecked =>
                  RendersChecked(body', review.qa_scenarios[k])]_vars

-----------------------------------------------------------------------------
(* Prior reviews as the reconciler's contract names them *)

\* the document b contains the fixed header text somewhere in one of its lines
CarriesMarker(b) ==
    \E k \in 1..Len(b) : \E i \in 1..Len(b[k]) :
        i + 2 <= Len(b[k]) /\ SubSeq(b[k], i, i + 2) = Marker

\* the prior reviews of the pull request that carry the marker
MarkedReviews == {i \in 1..Len(prReviews) : CarriesMarker(prReviews[i].body)}

\* a line of b has a ticked box
HasTickedLine(b) == \E k \in 1..Len(b) : HasCheckedItem(b[k])

(* C11: a prior review whose body does not contain the header marker is never
   passed to dismissReview and adds nothing to the checked-scenario set, even
   when it has '- [x] <text>' lines: every dismissed review carries the marker
   and every checked scenario comes from a review that carries it. *)
C11_UnmarkedReviewIgnored ==
    /\ dismissCalls \subseteq MarkedReviews
    /\ previousCheckedScenarios \subseteq
           UNION {CheckedItems(prReviews[i].body) : i \in MarkedReviews}

\* a run has gone through the reviews of a pull request that has a review
\* without the marker but with a ticked line, and has dismissed another one
C11_Witness ==
    /\ pc = "review" /\ listed /\ dismissCalls # {}
    /\ \E i \in 1..Len(prReviews) :
          /\ ~CarriesMarker(prReviews[i].body)
          /\ HasTickedLine(prReviews[i].body)
          /\ i < Len(prReviews)

\* a checklist line with a ticked box: '- [x] <text>' or '- [X] <text>'
IsTickedChecklistLine(l) ==
    /\ Len(l) > 6
    /\ SubSeq(l, 1, 6) \in {<<"-", " ", "[", "x", "]", " ">>,
                            <<"-", " ", "[", "X", "]", " ">>}

\* the trimmed texts of the ticked checklist lines of the document b
TickedTexts(b) ==
    {Trim(SubSeq(b[k], 7, Len(b[k]))) :
        k \in {j \in 1..Len(b) : IsTickedChecklistLine(b[j])}}

(* C12: once a run has gone through the listed reviews, its checked set is
   exactly the set of the trimmed texts of the ticked checklist lines
   ('- [x] <text>' or '- [X] <text>') of the reviews that carry the marker;
   unticked items and other lines add nothing. *)
C12_CheckedSetIsTickedItems ==
    (pc = "review" /\ listed) =>
        previousCheckedScenarios =
            UNION {TickedTexts(prReviews[i].body) : i \in MarkedReviews}

-----------------------------------------------------------------------------
(* The matching rules as the matcher's contract states them *)

\* a contains b as a substring
Contains(a, b) ==
    \E i \in 0..(Len(a) - Len(b)) : SubSeq(a, i + 1, i + Len(b)) = b

\* s[i..j] is a word of s: a maximal run of characters that are not spaces
IsWordAt(s, i, j) ==
    /\ i <= j
    /\ \A k \in i..j : ~IsSpaceChar(s[k])
    /\ (i = 1 \/ IsSpaceChar(s[i - 1]))
    /\ (j = Len(s) \/ IsSpaceChar(s[j + 1]))

DistinctWords(s) ==
    {SubSeq(s, p[1], p[2]) :
        p \in {q \in (1..Len(s)) \X (1..Len(s)) : IsWordAt(s, q[1], q[2])}}

\* the rules on the normalized strings a and b
CarryRule(a, b) ==
    \/ a = b
    \/ Contains(a, b)
    \/ Contains(b, a)
    \/ LET shared == Cardinality(DistinctWords(a) \cap DistinctWords(b))
           smaller == Min(Cardinality(DistinctWords(a)), Cardinality(DistinctWords(b)))
       IN 10 * shared >= 7 * smaller

(* C13: isScenarioPreviouslyChecked(candidate, checked) returns true exactly
   when some b of checked satisfies one of the rules on the normalized
   strings: equality, containment either way, or shared distinct words being
   at least 70% of the smaller distinct-word count (7 of 10 match); 'B'
   against {'A'} and 6 of 10 give false. *)
C13_MatchIffSomeRule ==
    matched # <<>> =>
        /\ matched[1] = (\E b \in checkedSet :
                            CarryRule(Normalize(candidate), Normalize(b)))
        /\ (candidate = TB /\ checkedSet = {TA}) => matched[1] = FALSE
        /\ (candidate = W7of10 /\ checkedSet = {W10}) => matched[1] = TRUE
        /\ (candidate = W6of10 /\ checkedSet = {W10}) => matched[1] = FALSE
        /\ (candidate = TLoginBang /\ checkedSet = {TLoginLower}) => matched[1] = TRUE

\* the 70% bound met exactly: 7 shared words of 10, neither string inside the other
C13_Witness ==
    /\ matched = <<TRUE>> /\ candidate = W7of10 /\ checkedSet = {W10}
    /\ ~Contains(W7of10, W10) /\ ~Contains(W10, W7of10)

-----------------------------------------------------------------------------
\* the step of a run that builds the body and calls createReview
IsSubmitStep == pc = "post" /\ pc' = "idle"

(* C14: when the pull request has no prior review that carries the marker
   (none at all included), the run's checked set is empty, every QA scenario
   of the new review is rendered with an unticked box and none with a ticked
   one, and the run that posts the review is marked failed only for a
   do_not_merge verdict. *)
C14_NoMarkedReviewAllUnchecked ==
    [][(IsSubmitStep /\ MarkedReviews = {}) =>
          /\ previousCheckedScenarios = {}
          /\ \A k \in 1..Len(review.qa_scenarios) :
                \E j \in 1..Len(body') :
                    body'[j] = ChecklistLine(FALSE, review.qa_scenarios[k])
          /\ \A j \in 1..Len(body') : ~IsTickedChecklistLine(body'[j])
          /\ (Len(prReviews') > Len(prReviews) =>
                 (failed' <=> review.verdict = "do_not_merge"))]_vars

\* a run has posted a review with QA scenarios, without failing, on a pull
\* request whose only other review has a ticked line but no marker
C14_Witness ==
    /\ pc = "idle" /\ event # Null /\ ~failed
    /\ Len(prReviews) = 2
    /\ prReviews[1].run = 0 /\ HasTickedLine(prReviews[1].body)
    /\ prReviews[2].run = runNo
    /\ review.qa_scenarios # <<>>

-----------------------------------------------------------------------------
(* The QA checklist of a composed document *)

\* the line opens the QA section, in the compact or in the detailed layout
IsQAHeading(l) ==
    \E i \in 1..Len(l) : l[i] \in {" <b>QA Scenarios (", " QA Test Scenarios"}

\* the lines i..j of b are not empty
NoneEmpty(b, i, j) == \A k \in i..j : b[k] # <<>>

\* the QA checklist of b: the first block of non-empty lines after the heading
QAChecklist(b) ==
    IF ~\E h \in 1..Len(b) : IsQAHeading(b[h]) THEN <<>>
    ELSE LET h == CHOOSE k \in 1..Len(b) : IsQAHeading(b[k])
             first == CHOOSE i \in (h + 1)..Len(b) :
                          b[i] # <<>> /\ \A k \in (h + 1)..(i - 1) : b[k] = <<>>
             last == CHOOSE j \in first..Len(b) :
                         /\ NoneEmpty(b, first, j)
                         /\ (j = Len(b) \/ b[j + 1] = <<>>)
         IN SubSeq(b, first, last)

\* isCarriedForward of the contract
IsCarriedForward(c, checked) ==
    \E b \in checked : CarryRule(Normalize(c), Normalize(b))

\* one line per scenario, in input order, ticked exactly when carried forward
ExpectedChecklist(scenarios, checked) ==
    [k \in 1..Len(scenarios) |->
        (IF IsCarriedForward(scenarios[k], checked)
         THEN <<"-", " ", "[", "x", "]", " ">>
         ELSE <<"-", " ", "[", " ", "]", " ">>) \o scenarios[k]]

(* C15: for every review data and checked set, the document of either layout
   has the same QA checklist: one line '- [x] <scenario>' or '- [ ] <scenario>'
   per scenario, in input order, ticked exactly when the scenario is carried
   forward from the checked set. *)
C15_SameChecklistInBothLayouts ==
    body # Null =>
        QAChecklist(body) = ExpectedChecklist(review.qa_scenarios,
                                              previousCheckedScenarios)

\* the detailed layout has rendered one carried and one new scenario
C15_Witness ==
    /\ body # Null /\ reviewStyle = "detailed"
    /\ review.qa_scenarios = <<TLoginBang, SUpload>>
    /\ previousCheckedScenarios = {TLoginLower}
    /\ QAChecklist(body) = <<ChecklistLine(TRUE, TLoginBang),
                             ChecklistLine(FALSE, SUpload)>>

-----------------------------------------------------------------------------
(* The sections of a composed document *)

\* a line of b has one of the fragments
HasFragment(b, fragments) ==
    \E k \in 1..Len(b) : \E i \in 1..Len(b[k]) : b[k][i] \in fragments

HasSummarySection(b) == HasFragment(b, {"**Summary:** ", " Summary"})
HasAnalysisSection(b) == HasFragment(b, {"**Analysis:** ", " Analysis"})
HasTestsSection(b) ==
    HasFragment(b, {" <b>Tests Suggested</b></summary>", " Tests Required"})
HasQuestionsSection(b) == HasFragment(b, {" Questions:** ", " Questions"})
HasQualitySection(b) == HasFragment(b, {"**Code Quality:** ", " Code Quality"})

\* a '### ...' heading of the detailed layout
IsHeading(l) == l # <<>> /\ l[1] = "### "

\* every heading of b is followed by a line of content
HeadingsHaveContent(b) ==
    \A k \in 1..Len(b) :
        IsHeading(b[k]) => k < Len(b) /\ b[k + 1] # <<>> /\ ~IsHeading(b[k + 1])

SectionsOnlyWhenPresent ==
    /\ HasSummarySection(body) => Present(review.summary)
    /\ HasAnalysisSection(body) => Present(review.analysis)
    /\ HasTestsSection(body) => review.tests_required /\ Present(review.test_suggestion)
    /\ HasQuestionsSection(body) => Length(review.questions) > 0
    /\ HasQualitySection(body) => review.code_quality.kind # "absent"

(* C16: in the composed document the sections summary, analysis,
   tests-required, questions and code-quality appear only when the review
   data has the field, and no heading is rendered without content under it
   (the verdict is a field of every review data here). *)
C16_SectionsOnlyWhenPresent ==
    body # Null => SectionsOnlyWhenPresent /\ HeadingsHaveContent(body)

-----------------------------------------------------------------------------
(* The provider's response and the review event *)

\* the response is the text of a review object: it parses, and not to null
IsReviewObject(content) == content.parses /\ content.value # JsonNull

\* the step of a run in which getAIReview returns
IsParseStep == pc = "review" /\ pc' # "review"

\* the step of a run in which createReview succeeds
IsPostStep == IsSubmitStep /\ Len(prReviews') > Len(prReviews)

(* C17: when the provider's response is not a review object, parsing yields
   the fallback review data and the run goes on with it to createReview; the
   review it posts has no inline comments and the run is not marked failed. *)
C17_BadResponseGivesFallback ==
    [][/\ (IsParseStep /\ ~IsReviewObject(response')) =>
             review' = FallbackReview /\ pc' = "post" /\ ~failed'
       /\ (IsPostStep /\ ~IsReviewObject(response)) =>
             prReviews'[Len(prReviews')].comments = <<>> /\ ~failed']_vars

(* C18: with auto-approve enabled and the verdict approved, the run posts a
   review whether or not the platform accepts the APPROVE event: if it is
   rejected, the review is posted with the event COMMENT instead. *)
C18_RejectedApproveFallsBack ==
    [][(IsSubmitStep /\ autoApprove /\ review.verdict = "approved") =>
          /\ Len(prReviews') = Len(prReviews) + 1
          /\ prReviews'[Len(prReviews')].event \in {"APPROVE", "COMMENT"}
          /\ ~failed']_vars

(* C19: the event a run submits is determined by the verdict and auto-approve
   alone: APPROVE exactly when the verdict is approved and auto-approve is
   true, REQUEST_CHANGES exactly when the verdict is do_not_merge, COMMENT
   otherwise; with auto-approve false the event is never APPROVE and is the
   event of the earlier revision. *)
C19_EventFromVerdictAndInput ==
    event # Null =>
        /\ event = "APPROVE" <=> (review.verdict = "approved" /\ autoApprove)
        /\ event = "REQUEST_CHANGES" <=> review.verdict = "do_not_merge"
        /\ event = "COMMENT" <=>
               ~(review.verdict = "approved" /\ autoApprove)
               /\ review.verdict # "do_not_merge"
        /\ ~autoApprove => event # "APPROVE" /\ event = ReviewEventV1(review.verdict)
        /\ (pc = "idle" /\ prReviews # <<>>
               /\ prReviews[Len(prReviews)].run = runNo) =>
               prReviews[Len(prReviews)].event = event

\* runs have posted a review with APPROVE and, before it, one with another event
C19_Witness ==
    /\ pc = "idle" /\ event = "APPROVE" /\ autoApprove
    /\ Len(prReviews) = 2
    /\ prReviews[2].run = runNo /\ prReviews[2].event = "APPROVE"
    /\ prReviews[1].run > 0 /\ prReviews[1].event # "APPROVE"

-----------------------------------------------------------------------------
(* C20: two calls of the indexer on the same text return equal maps, whatever
   texts were indexed before or between them. *)
C20_SameTextSameMap ==
    \A i \in 1..Len(returned) : \A j \in 1..Len(returned) :
        returned[i].text = returned[j].text => returned[i].map = returned[j].map

\* the same text was indexed first and last, with a text of another file
\* in between
C20_Witness ==
    /\ Len(returned) = 3
    /\ returned[1].text = returned[3].text
    /\ returned[2].text # returned[1].text
    /\ returned[1].map # <<>> /\ returned[2].map # <<>>
    /\ returned[2].map # returned[1].map

-----------------------------------------------------------------------------
(* The steps of the indexer, line by line *)

\* the line the step consumes, and whether a file is current when it does
StepLine == log'[Len(log')].line
UnderCurrentFile == ~NoCurrentFile(currentFile)

\* a removed line: its first character is '-', whatever follows
IsRemovedLine(l) == l # <<>> /\ l[1] = "-"

(* C21: the step that consumes a removed line (first character '-', also
   when its content begins with '--') under a current file raises
   diffPosition by exactly 1, adds no entry to the map and leaves
   currentNewLine unchanged. *)
C21_RemovedLineOnlyAdvancesPosition ==
    [][(UnderCurrentFile /\ IsRemovedLine(StepLine)) =>
          /\ diffPosition' = diffPosition + 1
          /\ fileLineMap' = fileLineMap
          /\ currentNewLine' = currentNewLine]_vars

\* a line that occupies a diff position: added, removed or context
IsPositionedLine(l) == IsAddedLine(l) \/ IsContextLine(l) \/ l = LDel

(* C22: within a file's block diffPosition never decreases and returns to 0
   only at a new-file header; a hunk header under a current file raises it by
   exactly 1 and sets currentNewLine to the header's new-start, so the first
   line of a later hunk has the position of the previous hunk's last line
   plus 2. *)
C22_PositionsContinueAcrossHunks ==
    [][/\ ~IsFileHeaderLine(StepLine) => diffPosition' >= diffPosition
       /\ (UnderCurrentFile /\ IsHunkHeaderLine(StepLine)) =>
             /\ diffPosition' = diffPosition + 1
             /\ currentNewLine' = NewStartOf(StepLine)
       /\ \A i \in 1..(Len(log') - 2) :
             (/\ ~NoCurrentFile(log'[i].file)
              /\ IsPositionedLine(log'[i].line)
              /\ IsHunkHeaderLine(log'[i + 1].line)) =>
                 log'[i + 2].pos = log'[i].pos + 2]_vars

\* two hunks of one file: the added line of the second has the position of
\* the added line of the first plus 2
C22_Witness ==
    /\ LogLines = <<LFileA, LHunk1, LAdd, LHunk5, LAdd>>
    /\ fileLineMap[PathA][1] = 1 /\ fileLineMap[PathA][5] = 3
    /\ diffPosition = 4

\* the lines consumed after this step, without the no-newline markers
LinesWithoutMarkers ==
    SelectSeq([i \in 1..Len(log') |-> log'[i].line],
              LAMBDA l : ~IsNoNewlineMarker(l))

(* C23: the step that consumes a no-newline marker (first character a
   backslash) under a current file changes neither the map nor diffPosition
   nor currentNewLine, and the map of a text with markers is the map of the
   same lines with the markers left out. *)
C23_MarkerChangesNothing ==
    [][/\ (UnderCurrentFile /\ IsNoNewlineMarker(StepLine)) =>
             UNCHANGED <<fileLineMap, diffPosition, currentNewLine, currentFile>>
       /\ (\E i \in 1..Len(log') : IsNoNewlineMarker(log'[i].line)) =>
             fileLineMap' = parseDiffForLinePositions(LinesWithoutMarkers)]_vars

\* an added line after a marker has the position it has without the marker
C23_Witness ==
    /\ LogLines = <<LFileA, LHunk1, LDel, LNoNl, LAdd>>
    /\ fileLineMap[PathA][1] = 2
    /\ fileLineMap = parseDiffForLinePositions(<<LFileA, LHunk1, LDel, LAdd>>)

(* C24: as long as no '+++ b/<path>' line has been read, every line is
   skipped: the map is empty and diffPosition and currentNewLine keep their
   initial value 0, whatever the lines were (hunk headers, '+' and '-' lines
   included). *)
NoHeaderYet == \A i \in 1..Len(log) : ~IsFileHeaderLine(log[i].line)

C24_LinesBeforeFirstFileSkipped ==
    NoHeaderYet =>
        /\ fileLineMap = <<>>
        /\ diffPosition = 0
        /\ currentNewLine = 0
        /\ NoCurrentFile(currentFile)

C24_Witness ==
    /\ LogLines = <<LHunk5, LAdd, LDel, LCtx>>
    /\ fileLineMap = <<>> /\ diffPosition = 0 /\ currentNewLine = 0

(* C25: a dismissReview call that throws does not end the run. Whatever the
   outcome of the call, the loop goes on with the remaining recognized
   reviews, the run is not marked failed, and the checked items of the review
   are in the set; when the loop is over the set holds the checked items of
   every recognized review, dismissed or not. *)
IsDismissStep == pc = "dismiss" /\ sherlockReviews' # sherlockReviews

C25_DismissFailureNotFatal ==
    [][/\ IsDismissStep =>
             /\ pc' = "dismiss" /\ failed' = failed
             /\ sherlockReviews' = Tail(sherlockReviews)
             /\ previousCheckedScenarios' =
                    previousCheckedScenarios \cup
                        CheckedItems(prReviews[Head(sherlockReviews)].body)
       /\ (pc' = "review" /\ listed') =>
             previousCheckedScenarios' =
                 UNION {CheckedItems(prReviews'[i].body) : i \in MarkedReviews'}]_vars

\* the loop is over, and the dismissal of a review with checked items failed
C25_Witness ==
    /\ pc = "review" /\ listed
    /\ \E i \in MarkedReviews :
          /\ i \in dismissCalls /\ prReviews[i].state # "DISMISSED"
          /\ CheckedItems(prReviews[i].body) # {}
          /\ CheckedItems(prReviews[i].body) \subseteq previousCheckedScenarios

(* C26: a run that has dismissed a prior review does not end without calling
   createReview: when a run on a pull_request event is over and one of its
   dismissReview calls succeeded, createReview is among its calls. *)
HasCalled(api) == \E k \in 1..Len(calls) : calls[k].api = api
HasDismissed == \E k \in 1..Len(calls) : calls[k] = Called("dismissReview")
RunIsOver == pc = "idle" /\ runNo > 0

C26_DismissingRunPostsReview ==
    (RunIsOver /\ HasDismissed) => HasCalled("createReview")

(* C27: the checked set is the union over all recognized reviews of the pull
   request, not the items of the latest one: once a run has gone through the
   listed reviews, the text of every ticked checklist line of every review
   that carries the marker is in the set, even when the same scenario is
   unticked in a later review. *)
C27_CheckedSetIsUnionOverReviews ==
    (pc = "review" /\ listed) =>
        \A i \in MarkedReviews :
            TickedTexts(prReviews[i].body) \subseteq previousCheckedScenarios

\* a document has the line
HasLine(b, l) == \E k \in 1..Len(b) : b[k] = l

\* the scenario is ticked in the first review and unticked in the latest one,
\* and the run that listed both has it in its set
C27_Witness ==
    /\ pc = "review" /\ listed
    /\ Len(prReviews) = 2 /\ MarkedReviews = {1, 2}
    /\ HasLine(prReviews[1].body, ChecklistLine(TRUE, SLogin))
    /\ HasLine(prReviews[2].body, ChecklistLine(FALSE, SLogin))
    /\ SLogin \in previousCheckedScenarios

(* C28: when a string of the checked set normalizes to the empty string (it
   has only punctuation or symbols), isScenarioPreviouslyChecked returns true
   for every candidate; and a candidate that normalizes to the empty string
   is matched against every checked set that is not empty. *)
NormalizesToEmpty(t) == Normalize(t) = <<>>

C28_EmptyNormalFormMatchesAll ==
    matched # <<>> =>
        /\ (\E t \in checkedSet : NormalizesToEmpty(t)) => matched[1] = TRUE
        /\ (NormalizesToEmpty(candidate) /\ checkedSet # {}) => matched[1] = TRUE

\* 'B' matches nothing of {'A'}, yet it is matched once '?!' is checked too
C28_Witness ==
    /\ matched = <<TRUE>> /\ candidate = TB /\ checkedSet = {TA, TSymbols}
    /\ NormalizesToEmpty(TSymbols) /\ ~CarryRule(Normalize(TB), Normalize(TA))

(* C29: matching against a single checked string is symmetric: the result of
   isScenarioPreviouslyChecked(s, {t}) is the result of
   isScenarioPreviouslyChecked(t, {s}). *)
C29_SingleMatchSymmetric ==
    matched # <<>> =>
        \A t \in checkedSet :
            checkedSet = {t} =>
                matched[1] = isScenarioPreviouslyChecked(t, {candidate})

\* a one-word candidate inside a ten-word checked string, and the other way round
C29_Witness ==
    /\ matched = <<TRUE>> /\ candidate = TA /\ checkedSet = {W10}
    /\ isScenarioPreviouslyChecked(W10, {TA})
    /\ Contains(Normalize(W10), Normalize(TA))
    /\ ~Contains(Normalize(TA), Normalize(W10))

(* C30: a run triggered by an event other than pull_request is marked failed
   and is over at once, with no external call made: no reviews listed, none
   dismissed, no diff fetched, no provider called, no review posted. *)
OnOtherEvent == eventName # Null /\ eventName # "pull_request"

C30_OtherEventFailsBeforeAnyCall ==
    [][OnOtherEvent' =>
          /\ failed' /\ pc' = "idle"
          /\ calls' = <<>>
          /\ ~listed' /\ response' = Null /\ body' = Null /\ event' = Null
          /\ prReviews' = prReviews
          /\ dismissCalls' = dismissCalls]_vars

\* a push event on a pull request that has a dismissable SherlockQA review
C30_Witness ==
    /\ eventName = "push" /\ failed /\ pc = "idle" /\ calls = <<>>
    /\ \E i \in MarkedReviews : prReviews[i].state = "CHANGES_REQUESTED"

====
